---------------------------- MODULE Spec2Model ----------------------------
(***************************************************************************)
(* A model of shipbot (cmd/shipbot/main.go): one invocation lists the      *)
(* releases of a repository, finds or creates the release of a tag, lists  *)
(* that release's assets and uploads the configured local files that the   *)
(* release does not have yet.                                              *)
(*                                                                         *)
(* The program's state is its package-level variables (tag, target), the   *)
(* locals of DoRelease (releases, found, assetMap, the loop index i) and   *)
(* the position pc in main/DoRelease/syncAsset.  The environment is        *)
(* the release registry (registry: the releases, each with its assets, in  *)
(* listing order), the local file system (fs) and the git subprocess.      *)
(* calls is the history of the calls the program has made.                 *)
(***************************************************************************)
EXTENDS Integers, Sequences, FiniteSets, TLC

(***************************************************************************)
(* Bounds of the model.                                                    *)
(***************************************************************************)
\* The number of entries the registry returns for a listing made with an
\* empty github.ListOptions{} (one page of the server's default size; the
\* server's default is 30, scaled down here).
PerPage == 2
\* The most asset mappings a configuration file holds.
MaxMappings == 2
\* The most times the same command line is run, one process after the other.
MaxRuns == 2

\* The registry holds at most one release, and a release at most one asset,
\* more than a page returns.
MaxReleases == PerPage + 1
MaxAssets == PerPage + 1

(***************************************************************************)
(* Program constants.                                                      *)
(***************************************************************************)
\* findCommitSha: if len(sha) != 40
ShaLen == 40
\* glog.Fatalf ends the process with this exit code
FatalExit == 255

(***************************************************************************)
(* Small sets the inputs are drawn from.                                   *)
(***************************************************************************)
Rep(n, c) == [k \in 1..n |-> c]

\* A string is modelled as the sequence of its characters where its length
\* or its characters matter (the -target flag, the git output).
EmptyString == <<>>
ExplicitTarget == <<"m", "a", "i", "n">>
Sha == Rep(ShaLen, "a")

\* -tag values: absent, or the tag to release
TagFlags == {"", "v1"}
\* tag names of the releases already in the registry
Tags == {"v1", "v2"}
\* -target values
TargetFlags == {EmptyString, ExplicitTarget}
\* what `git rev-list -n 1 <tag>` writes to its standard output
GitOutputs ==
    { Sha \o <<"\n">>,
      Sha,
      <<" ">> \o Sha \o <<"\n">>,
      EmptyString,
      <<"\n">>,
      Rep(ShaLen - 1, "a") \o <<"\n">>,
      Rep(ShaLen + 1, "a") \o <<"\n">>,
      Sha \o <<"\n", "b">> }

\* local paths named by the configuration, one per mapping position
Sources == 1..MaxMappings
\* names of remote assets; "c" is used by no mapping
GithubNames == {"a", "b"}
AssetNames == GithubNames \cup {"c"}
\* sizes in bytes of local files and of remote assets
Sizes == {1, 2}
\* os.Stat fails for a path mapped to Missing
Missing == 0

Min(a, b) == IF a <= b THEN a ELSE b

RECURSIVE SeqsUpTo(_, _)
\* all sequences over S of length at most n
SeqsUpTo(S, n) ==
    IF n = 0 THEN {<<>>}
    ELSE LET shorter == SeqsUpTo(S, n - 1)
         IN  shorter \cup {Append(q, x) : q \in shorter, x \in S}

Range(q) == {q[k] : k \in DOMAIN q}
DistinctNames(q) == \A j, k \in DOMAIN q : q[j].name = q[k].name => j = k


(***************************************************************************)
(* State.                                                                  *)
(***************************************************************************)
VARIABLES
    pc,                 \* position of the process: "main", "ListReleases",
                        \* "findCommitSha", "CreateRelease",
                        \* "ListReleaseAssets", "syncAsset", "Open",
                        \* "UploadReleaseAsset", "exit"
    tag,                \* var tag (-tag)
    target,             \* var target (-target; DoRelease assigns it)
    config,             \* Config.Assets as read from the -config file
    releases,           \* DoRelease: releases, as ListReleases returned them
    found,              \* DoRelease: found, the release's ID; Nil when nil
    sha,                \* findCommitSha: the sha it returned
    assetMap,           \* DoRelease: assetMap, githubName -> recorded size
    i,                  \* DoRelease: index of the mapping being reconciled
    srcStat,            \* syncAsset: srcStat.Size() of the current mapping
    f,                  \* syncAsset: the open file handles (sources)
    exit,               \* the process's exit code; Running until it ends
    err,                \* the error DoRelease returned; "" while none
    registry,           \* the registry: the repository's releases in
                        \* listing order, each with its assets in listing
                        \* order
    fs,                 \* the local file system: source -> size, or Missing
    calls,              \* the calls made so far, oldest first
    argv,               \* the command line: the -tag and -target values
    before,             \* the registry as it was when the process started
    githubAccessToken,  \* var githubAccessToken (GITHUB_TOKEN)
    githubUser,         \* var githubUser (GITHUB_USER)
    githubPassword,     \* var githubPassword (GITHUB_PASSWORD)
    cmd                 \* findCommitSha: the subprocess as it ended: whether
                        \* cmd.Run returned nil (ran) and what it wrote (out)

vars == <<pc, tag, target, config, releases, found, sha, assetMap, i, srcStat, f,
          exit, err, registry, fs, calls, argv, before, githubAccessToken,
          githubUser, githubPassword, cmd>>

\* the package variables read from the environment
env == <<githubAccessToken, githubUser, githubPassword>>

Nil == 0
Running == -1
\* make(map[string]*github.ReleaseAsset): the map with no key
EmptyMap == [n \in {} |-> 0]

AssetMappings == [source : Sources, githubName : GithubNames, optional : BOOLEAN]
\* configuration files: mapping k reads source k
Configs ==
    {c \in SeqsUpTo(AssetMappings, MaxMappings) :
        \A k \in DOMAIN c : c[k].source = k}

\* the assets a release may hold before the run: "a" of either size, "b" of
\* two bytes, and "c", which no mapping names
Assets ==
    {[name |-> "a", size |-> 1], [name |-> "a", size |-> 2],
     [name |-> "b", size |-> 2], [name |-> "c", size |-> 1]}
\* the asset lists a release may hold before the run: names are unique
\* within a release
AssetLists == {q \in SeqsUpTo(Assets, MaxAssets) : DistinctNames(q)}

\* the release with ID id, tag t and assets al that existed before the run
OldRelease(id, t, al) ==
    [id |-> id, tagName |-> t, targetCommitish |-> <<"o", "l", "d">>,
     draft |-> FALSE, assets |-> al]

\* the last position of tag "v1" in the tag list ts, 0 when it has none
LastV1(ts) ==
    IF \A k \in DOMAIN ts : ts[k] # "v1" THEN 0
    ELSE CHOOSE k \in DOMAIN ts :
            ts[k] = "v1" /\ \A j \in DOMAIN ts : ts[j] = "v1" => j <= k

\* the registries the run may start from: up to MaxReleases releases,
\* duplicates of a tag allowed; the last release of tag "v1" holds assets
\* (any list of AssetLists), the others none; releases and assets together
\* are at most MaxReleases + 1
Registries ==
    {[k \in DOMAIN ts |-> OldRelease(k, ts[k], IF k = LastV1(ts) THEN al ELSE <<>>)] :
        <<ts, al>> \in {x \in SeqsUpTo(Tags, MaxReleases) \X AssetLists :
                            Len(x[1]) + Len(x[2]) <= MaxReleases + 1}}

\* the file systems the run may start from: source k, when present, holds k
\* bytes
FileSystems == {[s \in Sources |-> IF s \in P THEN s ELSE Missing] : P \in SUBSET Sources}

\* values of GITHUB_TOKEN, GITHUB_USER and GITHUB_PASSWORD
EnvValues == {"", "x"}

\* the environments the process may start in: <<GITHUB_TOKEN, GITHUB_USER,
\* GITHUB_PASSWORD>>
Environments == EnvValues \X EnvValues \X EnvValues

\* the environments with neither GITHUB_USER nor GITHUB_PASSWORD set.
\* DoRelease reads none of the three variables, so which of them gave main
\* the client makes no difference to it.
TokenOrNone == {e \in Environments : e[2] = "" /\ e[3] = ""}

\* no subprocess has run
NoCmd == [ran |-> FALSE, out |-> EmptyString]

\* the state when main starts, in an environment of envs and with a registry
\* of regs
Start(regs, envs) ==
    /\ pc = "main"
    /\ tag = ""
    /\ target = EmptyString
    /\ config = <<>>
    /\ releases = <<>>
    /\ found = Nil
    /\ sha = EmptyString
    /\ assetMap = EmptyMap
    /\ i = 0
    /\ srcStat = 0
    /\ f = {}
    /\ exit = Running
    /\ err = ""
    /\ registry \in regs
    /\ fs \in FileSystems
    /\ calls = <<>>
    /\ argv = [tag |-> "", target |-> EmptyString]
    /\ before = registry
    /\ \E e \in envs :
        /\ githubAccessToken = e[1]
        /\ githubUser = e[2]
        /\ githubPassword = e[3]
    /\ cmd = NoCmd

Init == Start(Registries, TokenOrNone)

(***************************************************************************)
(* Helpers.                                                                *)
(***************************************************************************)
\* glog.Fatalf in main: the process ends with a non-zero exit code
Fatal(e) ==
    /\ pc' = "exit"
    /\ exit' = FatalExit
    /\ err' = e

\* a call of operation op, about release id / asset name / mapping k, that
\* made its caller fail with error e ("" when it did not), recorded
Call(op, id, name, k, e) ==
    calls' = Append(calls, [op |-> op, id |-> id, name |-> name, k |-> k, err |-> e])

\* the first page of a listing: what a list call with an empty
\* github.ListOptions{} returns
FirstPage(q) == SubSeq(q, 1, Min(PerPage, Len(q)))

\* the release of the registry with ID id
ReleaseById(id) == CHOOSE r \in Range(registry) : r.id = id

\* an ID no release of the registry has
NewId == 1 + Len(registry)

\* the registry lists releases newest first, and the assets of a release
\* oldest first
Newest(q, x) == <<x>> \o q
Latest(q, x) == Append(q, x)

(***************************************************************************)
(* main: flags, configuration file, credentials.                           *)
(***************************************************************************)
\* what reading the -config file gives: the error main ends with ("" when
\* none) and the asset mappings
ConfigReads ==
    {[err |-> e, assets |-> <<>>] :
        e \in {"must specify -config", "error reading config file",
               "error parsing config file"}}
    \cup {[err |-> "", assets |-> c] : c \in Configs}

\* MainError, were one of GITHUB_USER and GITHUB_PASSWORD enough
MainError_UserOrPassword(tagFlag, cfg, token, user, password) ==
    IF tagFlag = "" THEN "must specify -tag"
    ELSE IF cfg.err # "" THEN cfg.err
    ELSE IF token # "" THEN ""
    ELSE IF user # "" \/ password # "" THEN ""
    ELSE "unable to find github credentials"

\* the error main ends with before it calls DoRelease, "" when it calls it
MainError(tagFlag, cfg, token, user, password) ==
    IF tagFlag = "" THEN "must specify -tag"
    ELSE IF cfg.err # "" THEN cfg.err
    ELSE IF token # "" THEN ""
    ELSE IF user # "" /\ password # "" THEN ""
    ELSE "unable to find github credentials"

main ==
    /\ pc = "main"
    /\ \E tagFlag \in TagFlags, targetFlag \in TargetFlags, cfg \in ConfigReads :
        /\ argv' = [tag |-> tagFlag, target |-> targetFlag]
        /\ tag' = tagFlag
        /\ target' = targetFlag
        /\ IF MainError(tagFlag, cfg, githubAccessToken, githubUser, githubPassword) # ""
           THEN /\ Fatal(MainError(tagFlag, cfg, githubAccessToken, githubUser,
                                   githubPassword))
                /\ config' = config
           ELSE /\ config' = cfg.assets
                /\ pc' = "ListReleases"
                /\ UNCHANGED <<exit, err>>
    /\ UNCHANGED <<releases, found, sha, assetMap, i, srcStat, f, registry, fs, calls,
                   before, env, cmd>>

(***************************************************************************)
(* DoRelease.                                                              *)
(***************************************************************************)
\* Return, were the error of the release listing dropped and DoRelease to go
\* on as with an empty list
Return_ListErrorDropped(e) ==
    IF e = "error listing releases"
    THEN /\ pc' = "CreateRelease"
         /\ UNCHANGED <<exit, err>>
    ELSE /\ pc' = "exit"
         /\ exit' = IF e = "" THEN 0 ELSE FatalExit
         /\ err' = e

\* DoRelease returns e ("" for nil) and main ends the process: exit code 0
\* when DoRelease returned nil, glog.Fatalf otherwise
Return(e) ==
    /\ pc' = "exit"
    /\ exit' = IF e = "" THEN 0 ELSE FatalExit
    /\ err' = e

RECURSIVE FindLoop(_, _, _, _)
\* for _, release := range releases { if sv(release.TagName) == tag { found = release } }
\* from element k on, with found = acc so far
FindLoop(rs, t, k, acc) ==
    IF k > Len(rs) THEN acc
    ELSE FindLoop(rs, t, k + 1, IF rs[k].tagName = t THEN rs[k].id ELSE acc)

\* FindRelease, were the loop to stop at the first match
FindRelease_FirstMatch(rs, t) ==
    LET m == {k \in DOMAIN rs : rs[k].tagName = t}
    IN  IF m = {} THEN Nil ELSE rs[CHOOSE k \in m : \A j \in m : k <= j].id

\* found after the loop over the listed releases rs
FindRelease(rs, t) == FindLoop(rs, t, 1, Nil)

\* AfterFind, were the commit resolved whatever the -target value
AfterFind_AlwaysResolve(fnd, tgt) ==
    IF fnd # Nil THEN "ListReleaseAssets" ELSE "findCommitSha"

\* AfterFind, were the test of found left out
AfterFind_NoFoundTest(fnd, tgt) ==
    IF tgt = EmptyString THEN "findCommitSha" ELSE "CreateRelease"

\* the position after the loop: if found == nil { if target == "" { ... } ... }
AfterFind(fnd, tgt) ==
    IF fnd # Nil THEN "ListReleaseAssets"
    ELSE IF tgt = EmptyString THEN "findCommitSha"
    ELSE "CreateRelease"

\* releases, _, err := ListReleases(...); the loop that sets found
DoRelease_ListReleases ==
    /\ pc = "ListReleases"
    /\ \/ /\ Call("ListReleases", Nil, "", 0, "error listing releases")
          /\ Return("error listing releases")
          /\ UNCHANGED <<releases, found>>
       \/ /\ Call("ListReleases", Nil, "", 0, "")
          /\ releases' = FirstPage(registry)
          /\ found' = FindRelease(releases', tag)
          /\ pc' = AfterFind(found', target)
          /\ UNCHANGED <<exit, err>>
    /\ UNCHANGED <<tag, target, config, sha, assetMap, i, srcStat, f, registry,
                   fs, argv, before, env, cmd>>

Whitespace == {" ", "\n", "\t", "\r"}

RECURSIVE TrimLeft(_)
TrimLeft(str) ==
    IF str # <<>> /\ Head(str) \in Whitespace THEN TrimLeft(Tail(str)) ELSE str

RECURSIVE TrimRight(_)
TrimRight(str) ==
    IF str # <<>> /\ str[Len(str)] \in Whitespace
    THEN TrimRight(SubSeq(str, 1, Len(str) - 1))
    ELSE str

\* strings.TrimSpace
TrimSpace(str) == TrimRight(TrimLeft(str))

\* findCommitSha, were the length of the sha not tested
findCommitSha_NoLengthTest(ran, out) ==
    IF ~ran THEN [sha |-> EmptyString, ok |-> FALSE]
    ELSE [sha |-> TrimSpace(out), ok |-> TRUE]

\* findCommitSha's results for a subprocess that ran (ran = TRUE: cmd.Run
\* returned nil) and wrote out: the sha and whether err is nil
findCommitSha(ran, out) ==
    IF ~ran THEN [sha |-> EmptyString, ok |-> FALSE]
    ELSE IF Len(TrimSpace(out)) # ShaLen THEN [sha |-> EmptyString, ok |-> FALSE]
    ELSE [sha |-> TrimSpace(out), ok |-> TRUE]

\* if target == "" { target, err = findCommitSha(buildDir, tag) ... }
DoRelease_findCommitSha ==
    /\ pc = "findCommitSha"
    /\ \E ran \in BOOLEAN, out \in GitOutputs :
        LET r == findCommitSha(ran, out)
        IN  /\ cmd' = [ran |-> ran, out |-> out]
            /\ target' = r.sha
            /\ sha' = r.sha
            /\ IF r.ok
               THEN /\ Call("findCommitSha", Nil, tag, 0, "")
                    /\ pc' = "CreateRelease"
                    /\ UNCHANGED <<exit, err>>
               ELSE /\ Call("findCommitSha", Nil, tag, 0, "cannot find sha for tag")
                    /\ Return("cannot find sha for tag")
    /\ UNCHANGED <<tag, config, releases, found, assetMap, i, srcStat, f,
                   registry, fs, argv, before, env>>

\* NewRelease, were Draft left out of the request
NewRelease_NotDraft ==
    [id |-> NewId, tagName |-> tag, targetCommitish |-> target, draft |-> FALSE,
     assets |-> <<>>]

\* release := &github.RepositoryRelease{...}, with the ID the registry
\* assigns
NewRelease ==
    [id |-> NewId, tagName |-> tag, targetCommitish |-> target, draft |-> TRUE,
     assets |-> <<>>]

\* found, _, err = CreateRelease(...): the registry adds the release and
\* returns it
DoRelease_CreateRelease ==
    /\ pc = "CreateRelease"
    /\ \/ /\ Call("CreateRelease", Nil, tag, 0, "error creating release")
          /\ Return("error creating release")
          /\ UNCHANGED <<found, registry>>
       \/ /\ Call("CreateRelease", NewRelease.id, tag, 0, "")
          /\ registry' = Newest(registry, NewRelease)
          /\ found' = NewRelease.id
          /\ pc' = "ListReleaseAssets"
          /\ UNCHANGED <<exit, err>>
    /\ UNCHANGED <<tag, target, config, releases, sha, assetMap, i, srcStat, f,
                   fs, argv, before, env, cmd>>

RECURSIVE IndexLoop(_, _, _)
\* for _, asset := range assets { assetMap[sv(asset.Name)] = asset }
\* from element k on, with assetMap = acc so far
IndexLoop(as, k, acc) ==
    IF k > Len(as) THEN acc
    ELSE IndexLoop(as, k + 1,
            [n \in DOMAIN acc \cup {as[k].name} |->
                IF n = as[k].name THEN as[k].size ELSE acc[n]])

\* Loop, were the loop over the mappings left out
Loop_NoMappings(k) ==
    /\ i' = i
    /\ Return("")

\* the for loop over sb.Config.Assets goes on to mapping k, or ends and
\* DoRelease returns nil
Loop(k) ==
    IF k <= Len(config)
    THEN /\ i' = k
         /\ pc' = "syncAsset"
         /\ UNCHANGED <<exit, err>>
    ELSE /\ i' = i
         /\ Return("")

\* LoopErr, were the error of a mapping dropped and the loop to go on
LoopErr_Continue(e) == Loop(i + 1)

\* err := sb.syncAsset(...); if err != nil { return err }
LoopErr(e) ==
    /\ i' = i
    /\ Return(e)

\* assets, _, err := ListReleaseAssets(...); assetMap; the loop starts
DoRelease_ListReleaseAssets ==
    /\ pc = "ListReleaseAssets"
    /\ \/ /\ Call("ListReleaseAssets", found, "", 0, "error listing assets")
          /\ Return("error listing assets")
          /\ UNCHANGED <<assetMap, i>>
       \/ /\ Call("ListReleaseAssets", found, "", 0, "")
          /\ assetMap' = IndexLoop(FirstPage(ReleaseById(found).assets), 1, EmptyMap)
          /\ Loop(1)
    /\ UNCHANGED <<tag, target, config, releases, found, sha, srcStat, f,
                   registry, fs, argv, before, env, cmd>>

(***************************************************************************)
(* syncAsset, for the mapping config[i].                                   *)
(***************************************************************************)
assetMapping == config[i]

\* StatFailed, were every mapping treated as required
StatFailed_AlwaysFails(m) == "error doing stat"

\* StatFailed, were every mapping treated as optional
StatFailed_Ignored(m) == ""

\* if !assetMapping.Optional { return error } return nil
StatFailed(m) == IF ~m.optional THEN "error doing stat" ELSE ""

\* Compare, were an asset of the same name taken as the same whatever its size
Compare_AlwaysSame(existing, size) == ""

\* if int64(iv(existing.Size)) != srcStat.Size() { return error } else { return nil }
Compare(existing, size) == IF existing # size THEN "asset size did not match" ELSE ""

\* Decide, were the file uploaded whenever the sizes differ
Decide_UploadOnMismatch(m) ==
    IF fs[m.source] = Missing THEN StatFailed(m)
    ELSE IF m.githubName \in DOMAIN assetMap /\ assetMap[m.githubName] = fs[m.source]
         THEN ""
         ELSE "Open"

\* Decide, were the assets of the release not looked up
Decide_NoLookup(m) ==
    IF fs[m.source] = Missing THEN StatFailed(m) ELSE "Open"

\* what syncAsset does up to os.Open: "Open" when it goes on to open the
\* file, else the error it returns ("" for nil)
Decide(m) ==
    IF fs[m.source] = Missing THEN StatFailed(m)
    ELSE IF m.githubName \in DOMAIN assetMap
         THEN Compare(assetMap[m.githubName], fs[m.source])
         ELSE "Open"

\* srcStat, err := os.Stat(assetMapping.Source) up to the size comparison
syncAsset_Stat ==
    /\ pc = "syncAsset"
    /\ LET d == Decide(assetMapping)
       IN  /\ Call("Stat", Nil, assetMapping.githubName, i, IF d = "Open" THEN "" ELSE d)
           /\ srcStat' = IF fs[assetMapping.source] = Missing
                         THEN srcStat ELSE fs[assetMapping.source]
           /\ IF d = "Open"
              THEN /\ pc' = "Open"
                   /\ UNCHANGED <<i, exit, err>>
              ELSE IF d = "" THEN Loop(i + 1) ELSE LoopErr(d)
    /\ UNCHANGED <<tag, target, config, releases, found, sha, assetMap, f,
                   registry, fs, argv, before, env, cmd>>

\* f, err := os.Open(assetMapping.Source); defer f.Close()
syncAsset_Open ==
    /\ pc = "Open"
    /\ \/ /\ Call("Open", Nil, assetMapping.githubName, i, "error opening")
          /\ LoopErr("error opening")
          /\ UNCHANGED f
       \/ /\ Call("Open", Nil, assetMapping.githubName, i, "")
          /\ f' = f \cup {assetMapping.source}
          /\ pc' = "UploadReleaseAsset"
          /\ UNCHANGED <<i, exit, err>>
    /\ UNCHANGED <<tag, target, config, releases, found, sha, assetMap, srcStat,
                   registry, fs, argv, before, env, cmd>>

\* the registry, with asset a added to release id's assets
AddAsset(id, a) ==
    [j \in DOMAIN registry |->
        IF registry[j].id = id
        THEN [registry[j] EXCEPT !.assets = Latest(@, a)]
        ELSE registry[j]]

\* the names of the assets release id has in the registry
NamesOf(id) == {a.name : a \in Range(ReleaseById(id).assets)}

\* uploadOptions := &github.UploadOptions{Name: assetMapping.GithubName} and
\* the file's bytes
UploadRequest(m) == [name |-> m.githubName, size |-> fs[m.source]]

\* Close, were the file left open when syncAsset returns
Close_Leaked(handles, src) == handles

\* defer f.Close(): the open handles when syncAsset returns, the handle of
\* src closed
Close(handles, src) == handles \ {src}

\* UploadReleaseAsset(..., i64v(release.ID), uploadOptions, f) and the
\* deferred f.Close(); the registry refuses a name the release already has
syncAsset_Upload ==
    /\ pc = "UploadReleaseAsset"
    /\ f' = Close(f, assetMapping.source)
    /\ \/ /\ Call("UploadReleaseAsset", found, assetMapping.githubName, i,
                  "error uploading assets")
          /\ LoopErr("error uploading assets")
          /\ UNCHANGED registry
       \/ /\ UploadRequest(assetMapping).name \notin NamesOf(found)
          /\ Call("UploadReleaseAsset", found, assetMapping.githubName, i, "")
          /\ registry' = AddAsset(found, UploadRequest(assetMapping))
          /\ Loop(i + 1)
    /\ UNCHANGED <<tag, target, config, releases, found, sha, assetMap, srcStat,
                   fs, argv, before, env, cmd>>

Next ==
    \/ main
    \/ DoRelease_ListReleases
    \/ DoRelease_findCommitSha
    \/ DoRelease_CreateRelease
    \/ DoRelease_ListReleaseAssets
    \/ syncAsset_Stat
    \/ syncAsset_Open
    \/ syncAsset_Upload

Spec == Init /\ [][Next]_vars

(***************************************************************************)
(* The same command line run again after the process has ended, with the   *)
(* configuration file, the local files and the registry as the process     *)
(* left them.  The package variables and the locals are those of a new     *)
(* process; calls keeps the history and marks where the new process starts.*)
(***************************************************************************)
Rerun ==
    /\ pc = "exit"
    /\ argv.tag # ""
    /\ Cardinality({k \in DOMAIN calls : calls[k].op = "rerun"}) < MaxRuns - 1
    /\ Call("rerun", Nil, "", 0, "")
    /\ pc' = "ListReleases"
    /\ tag' = argv.tag
    /\ target' = argv.target
    /\ releases' = <<>>
    /\ found' = Nil
    /\ sha' = EmptyString
    /\ assetMap' = EmptyMap
    /\ i' = 0
    /\ srcStat' = 0
    /\ f' = {}
    /\ exit' = Running
    /\ err' = ""
    /\ before' = registry
    /\ cmd' = NoCmd
    /\ UNCHANGED <<config, registry, fs, argv, env>>

NextTwice == Next \/ Rerun

SpecTwice == Init /\ [][NextTwice]_vars

(***************************************************************************)
(* The process in any environment: each of GITHUB_TOKEN, GITHUB_USER and   *)
(* GITHUB_PASSWORD set or not, with a registry of one release at most.     *)
(***************************************************************************)
InitCredentials == Start({r \in Registries : Len(r) <= 1}, Environments)

SpecCredentials == InitCredentials /\ [][Next]_vars

(***************************************************************************)
(* Properties.                                                             *)
(***************************************************************************)
\* the positions in calls of the calls of operation op
CallsOf(op) == {k \in DOMAIN calls : calls[k].op = op}

\* the positions in rs of the releases whose tagName is the tag
Matching(rs) == {k \in DOMAIN rs : rs[k].tagName = argv.tag}

Max(S) == CHOOSE x \in S : \A y \in S : y <= x

\* the releases the registry holds now and did not hold when the process
\* started
Created == {r \in Range(registry) : \A b \in Range(before) : b.id # r.id}

\* DoRelease has come to the asset listing: the find-or-create part
\* (ensureRelease) has returned a release
EnsureReleaseReturned ==
    pc = "ListReleaseAssets" \/ CallsOf("ListReleaseAssets") # {}

\* C1: when ensureRelease has returned and the releases that were listed held
\* none with the tag, exactly one create call was made and the registry holds
\* exactly one new release: the one found points to, a draft, with the tag as
\* tagName and with targetCommitish the -target value when that is not empty
\* and else the sha findCommitSha returned.
C1_CreatesOneDraft ==
    (EnsureReleaseReturned /\ Matching(releases) = {}) =>
        /\ Cardinality(CallsOf("CreateRelease")) = 1
        /\ Cardinality(Created) = 1
        /\ \A r \in Created :
            /\ r.id = found
            /\ r.draft = TRUE
            /\ r.tagName = argv.tag
            /\ r.targetCommitish =
                 IF argv.target # EmptyString THEN argv.target ELSE sha

\* a release was created with the sha the resolver returned, in a registry
\* that held other releases
C1_Witness ==
    /\ pc = "ListReleaseAssets"
    /\ Matching(releases) = {}
    /\ releases # <<>>
    /\ argv.target = EmptyString
    /\ \E r \in Created : r.targetCommitish = Sha

\* C2: when the releases that were listed hold one with the tag, no create
\* call and no commit resolution is made, found is the last of them in list
\* order, and every asset listing and upload is made for that release.
C2_FoundLastMatch ==
    Matching(releases) # {} =>
        LET last == releases[Max(Matching(releases))].id
        IN  /\ CallsOf("CreateRelease") = {}
            /\ CallsOf("findCommitSha") = {}
            /\ found = last
            /\ \A k \in CallsOf("ListReleaseAssets") \cup CallsOf("UploadReleaseAsset") :
                calls[k].id = last

\* two listed releases have the tag and an asset was uploaded to the second
C2_Witness ==
    /\ Cardinality(Matching(releases)) = 2
    /\ \E k \in CallsOf("UploadReleaseAsset") : calls[k].err = ""
    /\ exit = 0

\* C3: at most one create call is made, and only after a release listing that
\* succeeded and returned no release with the tag.
C3_AtMostOneCreate ==
    /\ Cardinality(CallsOf("CreateRelease")) <= 1
    /\ \A k \in CallsOf("CreateRelease") :
        /\ \E j \in CallsOf("ListReleases") : j < k /\ calls[j].err = ""
        /\ Matching(releases) = {}

\* a create call was made and failed
C3_Witness ==
    /\ pc = "exit"
    /\ \E k \in CallsOf("CreateRelease") : calls[k].err # ""

\* the release has an asset of mapping m's githubName and of the size of
\* m's local file
Synced(r, m) ==
    \E a \in Range(r.assets) : a.name = m.githubName /\ a.size = fs[m.source]

\* C5: when the process exits with code 0, the registry holds a release with
\* the tag that has, for every mapping whose source file exists, an asset
\* named githubName whose size is that of the local file.
C5_ExitZeroReconciled ==
    exit = 0 =>
        \E r \in Range(registry) :
            /\ r.tagName = argv.tag
            /\ \A k \in DOMAIN config :
                fs[config[k].source] # Missing => Synced(r, config[k])

\* exit code 0 after one mapping was found in the release with the same
\* size and the other was uploaded
C5_Witness ==
    /\ exit = 0
    /\ Len(config) = 2
    /\ \A k \in DOMAIN config : fs[config[k].source] # Missing
    /\ config[1].githubName \in DOMAIN assetMap
    /\ \E k \in CallsOf("UploadReleaseAsset") : calls[k].k = 2

\* the mapping being reconciled has a local file, and the assets that were
\* listed hold one of its githubName with another size
Conflict ==
    /\ pc = "syncAsset"
    /\ fs[assetMapping.source] # Missing
    /\ assetMapping.githubName \in DOMAIN assetMap
    /\ assetMap[assetMapping.githubName] # fs[assetMapping.source]

\* the upload calls made for mapping k, this step's included
UploadsFor(k) ==
    {j \in DOMAIN calls' : calls'[j].op = "UploadReleaseAsset" /\ calls'[j].k = k}

\* C6: when the listed assets of the release hold one named githubName whose
\* size differs from the local file's, syncAsset fails with the size
\* conflict error, the process ends with it, no upload is made for the
\* mapping and the registry is unchanged.
C6_ConflictFails ==
    [][Conflict =>
        /\ pc' = "exit"
        /\ exit' = FatalExit
        /\ err' = "asset size did not match"
        /\ UploadsFor(i) = {}
        /\ registry' = registry]_vars

\* the second mapping failed on a size conflict
C6_Witness ==
    /\ pc = "exit"
    /\ err = "asset size did not match"
    /\ i = 2
    /\ fs[config[2].source] # assetMap[config[2].githubName]

\* the mapping being reconciled has no local file
SourceMissing ==
    /\ pc = "syncAsset"
    /\ fs[assetMapping.source] = Missing

\* C7: for an optional mapping whose source file is missing, syncAsset
\* returns nil after the stat alone: no call to the registry, no file
\* opened, the registry unchanged, and the loop goes on with the next
\* mapping (or DoRelease returns nil after the last).
C7_OptionalMissingSkipped ==
    [][(SourceMissing /\ assetMapping.optional) =>
        /\ err' = ""
        /\ Len(calls') = Len(calls) + 1
        /\ calls'[Len(calls')].op = "Stat"
        /\ f' = f
        /\ registry' = registry
        /\ IF i < Len(config)
           THEN pc' = "syncAsset" /\ i' = i + 1 /\ exit' = Running
           ELSE pc' = "exit" /\ exit' = 0]_vars

\* the first mapping was optional and missing, and the second is being
\* reconciled
C7_Witness ==
    /\ pc = "syncAsset"
    /\ i = 2
    /\ config[1].optional
    /\ fs[config[1].source] = Missing

\* the calls made for mapping k, this step's included, the stat aside
CallsAfterStat(k) ==
    {j \in DOMAIN calls' : calls'[j].k = k /\ calls'[j].op # "Stat"}

\* C8: for a required mapping whose source file is missing, syncAsset fails
\* with the stat error and the process ends with it; no file is opened and
\* no upload or other registry call is made for the mapping.
C8_RequiredMissingFails ==
    [][(SourceMissing /\ ~assetMapping.optional) =>
        /\ pc' = "exit"
        /\ exit' = FatalExit
        /\ err' = "error doing stat"
        /\ CallsAfterStat(i) = {}
        /\ Len(calls') = Len(calls) + 1
        /\ registry' = registry]_vars

\* the second mapping was required and missing
C8_Witness ==
    /\ pc = "exit"
    /\ err = "error doing stat"
    /\ i = 2
    /\ ~config[2].optional

\* the positions in calls of the calls made for a mapping
MappingCalls == {k \in DOMAIN calls : calls[k].k > 0}

\* C9: the mappings are reconciled one after the other in configured order,
\* none skipped; a call that fails is the last call made: the process has
\* ended with its error and a non-zero code, so no stat, open or upload
\* follows for a later mapping; and every upload that succeeded is still in
\* the release.
C9_FirstFailureAborts ==
    /\ \A a, b \in MappingCalls : a < b => calls[a].k <= calls[b].k
    /\ \A a \in MappingCalls : \A m \in 1..calls[a].k :
        \E b \in CallsOf("Stat") : b <= a /\ calls[b].k = m
    /\ \A a \in DOMAIN calls :
        calls[a].err # "" =>
            /\ a = Len(calls)
            /\ pc = "exit"
            /\ exit = FatalExit
            /\ err = calls[a].err
    /\ \A a \in CallsOf("UploadReleaseAsset") :
        calls[a].err = "" =>
            Synced(ReleaseById(calls[a].id), config[calls[a].k])

\* the first mapping was uploaded, the second failed and the process ended
C9_Witness ==
    /\ pc = "exit"
    /\ Len(config) = 2
    /\ \E a \in CallsOf("UploadReleaseAsset") : calls[a].k = 1 /\ calls[a].err = ""
    /\ calls[Len(calls)].k = 2
    /\ calls[Len(calls)].err # ""
    /\ calls[Len(calls)].op = "Stat"

\* C10: when the registry holds a release with the tag, wherever in its
\* listing, a release listing that succeeds finds it and no release is
\* created.
C10_FindsAnyRelease ==
    (/\ \E r \in Range(before) : r.tagName = argv.tag
     /\ \E j \in CallsOf("ListReleases") : calls[j].err = "") =>
        /\ found # Nil
        /\ CallsOf("CreateRelease") = {}

\* where in calls the second process starts: 0 while the first runs
SecondRun ==
    IF CallsOf("rerun") = {} THEN 0 ELSE Max(CallsOf("rerun"))

\* the first process made no call that failed and listed the assets of the
\* release that the second process listed the assets of
SameReleaseSynced ==
    /\ SecondRun > 0
    /\ \A a \in 1..(SecondRun - 1) : calls[a].err = ""
    /\ \E a, b \in CallsOf("ListReleaseAssets") :
        a < SecondRun /\ SecondRun < b /\ calls[a].id = calls[b].id

\* C4: when the command is run again after a run that succeeded, for the
\* same release and mappings, with the local files as they were and the
\* registry as the first run left it, the second run makes no upload call.
C4_SecondRunUploadsNothing ==
    SameReleaseSynced =>
        \A u \in CallsOf("UploadReleaseAsset") : u < SecondRun

\* the asset listing has just returned without error: the registry is as it
\* was at listing time
JustListedAssets ==
    /\ calls # <<>>
    /\ calls[Len(calls)].op = "ListReleaseAssets"
    /\ calls[Len(calls)].err = ""

\* C11: when the asset listing has returned, every asset the release has in
\* the registry, wherever in its listing, is in the name index (assetMap)
\* under its name and with its size.
C11_IndexHoldsEveryAsset ==
    JustListedAssets =>
        \A a \in Range(ReleaseById(found).assets) :
            /\ a.name \in DOMAIN assetMap
            /\ assetMap[a.name] = a.size

\* commit resolution has failed: DoRelease returned the resolution error
\* and no release was created
ResolutionFailed ==
    /\ \A k \in CallsOf("findCommitSha") : calls[k].err = "cannot find sha for tag"
    /\ pc = "exit"
    /\ exit = FatalExit
    /\ err = "cannot find sha for tag"
    /\ CallsOf("CreateRelease") = {}
    /\ Created = {}

\* C12 as stated: when the resolver was invoked and what the subprocess
\* wrote has a length other than 40 characters, commit resolution fails with
\* the resolution error and no release is created.
C12_OutputNot40Fails ==
    (CallsOf("findCommitSha") # {} /\ Len(cmd.out) # ShaLen) => ResolutionFailed

\* C12, amended: when the resolver was invoked and what the subprocess
\* wrote, with the white space at its two ends removed, has a length other
\* than 40 characters, commit resolution fails with the resolution error and
\* no release is created, also when the subprocess ended with exit code 0.
C12_TrimmedNot40Fails ==
    (CallsOf("findCommitSha") # {} /\ Len(TrimSpace(cmd.out)) # ShaLen) =>
        ResolutionFailed

\* the subprocess ended with exit code 0 and wrote a line of 41 characters,
\* and resolution failed
C12_Witness ==
    /\ cmd.ran
    /\ cmd.out = Rep(ShaLen + 1, "a") \o <<"\n">>
    /\ ResolutionFailed
    /\ CallsOf("findCommitSha") # {}

\* the access token mode is resolvable: GITHUB_TOKEN is set
TokenMode == githubAccessToken # ""
\* the username/password mode is resolvable: GITHUB_USER and GITHUB_PASSWORD
\* are both set
PasswordMode == githubUser # "" /\ githubPassword # ""

\* main has ended the process with a fatal error and no call was made
FatalBeforeAnyCall ==
    /\ pc = "exit"
    /\ exit = FatalExit
    /\ err # ""
    /\ calls = <<>>

\* C13 as stated: unless exactly one of the two credential modes is
\* resolvable from the environment, the process exits with a fatal error
\* before any network call.
C13_ExactlyOneModeOrFatal ==
    (pc # "main" /\ ~(TokenMode # PasswordMode)) => FatalBeforeAnyCall

\* C13, amended: unless at least one of the two credential modes is
\* resolvable from the environment, the process exits with a fatal error
\* before any network call; when one or both are, it does not exit for want
\* of credentials.
C13_NoModeFatal ==
    /\ (pc # "main" /\ ~(TokenMode \/ PasswordMode)) => FatalBeforeAnyCall
    /\ (TokenMode \/ PasswordMode) => err # "unable to find github credentials"

\* with the flags and the configuration file in order, GITHUB_USER set and
\* GITHUB_PASSWORD and GITHUB_TOKEN not, main ended the process for want of
\* credentials
C13_Witness ==
    /\ FatalBeforeAnyCall
    /\ err = "unable to find github credentials"
    /\ githubUser # ""
    /\ githubPassword = ""

\* the run has ended, DoRelease was called and no call failed; the registry
\* held no release with the tag when the process started, and every mapping
\* is required and has its source file
SuccessPath ==
    /\ pc = "exit"
    /\ calls # <<>>
    /\ \A k \in DOMAIN calls : calls[k].err = ""
    /\ \A r \in Range(before) : r.tagName # argv.tag
    /\ \A k \in DOMAIN config :
        ~config[k].optional /\ fs[config[k].source] # Missing

\* C14: on the success path the run made exactly one create call and the
\* registry holds exactly one new release, a draft with the tag as tagName;
\* the run made exactly one upload call per mapping, in configured order,
\* each named the mapping's githubName and for the created release, whose
\* assets are now the uploaded ones in that order; and the exit code is 0.
C14_SuccessPath ==
    SuccessPath =>
        /\ exit = 0
        /\ Cardinality(CallsOf("CreateRelease")) = 1
        /\ Cardinality(Created) = 1
        /\ \A r \in Created :
            /\ r.tagName = argv.tag
            /\ r.draft = TRUE
            /\ r.id = found
            /\ r.assets = [k \in DOMAIN config |->
                             [name |-> config[k].githubName,
                              size |-> fs[config[k].source]]]
        /\ Cardinality(CallsOf("UploadReleaseAsset")) = Len(config)
        /\ \A k \in DOMAIN config :
            \E u \in CallsOf("UploadReleaseAsset") :
                /\ calls[u].k = k
                /\ calls[u].name = config[k].githubName
                /\ calls[u].id = found
        /\ \A u, v \in CallsOf("UploadReleaseAsset") :
            u < v => calls[u].k < calls[v].k

\* the success path with two mappings, in a registry that held a release of
\* another tag
C14_Witness ==
    /\ SuccessPath
    /\ Len(config) = 2
    /\ before # <<>>
    /\ exit = 0
    /\ Cardinality(CallsOf("UploadReleaseAsset")) = 2

\* syncAsset has returned for mapping k
Processed(k) ==
    /\ \E s \in CallsOf("Stat") : calls[s].k = k
    /\ i > k \/ pc = "exit"

\* the calls of operation op made for mapping k
CallsFor(op, k) == {c \in CallsOf(op) : calls[c].k = k}

\* mapping k's source file exists
HasFile(k) == fs[config[k].source] # Missing
\* the asset-name index has an asset named mapping k's githubName
Indexed(k) == config[k].githubName \in DOMAIN assetMap

\* every upload call made for mapping k is named its githubName and is for
\* the release ensureRelease returned
UploadsWellFormed(k) ==
    \A u \in CallsFor("UploadReleaseAsset", k) :
        /\ calls[u].name = config[k].githubName
        /\ calls[u].id = found

\* when the index has an asset of mapping k's githubName with the size of
\* the local file, the mapping was skipped: the stat alone, without error
SkippedWhenSame(k) ==
    (HasFile(k) /\ Indexed(k) /\ assetMap[config[k].githubName] = fs[config[k].source]) =>
        /\ \A s \in CallsFor("Stat", k) : calls[s].err = ""
        /\ CallsFor("Open", k) = {}
        /\ CallsFor("UploadReleaseAsset", k) = {}

\* C15 as stated: for each mapping syncAsset has processed, an upload call
\* was made if and only if the source file exists and the index has no asset
\* named githubName; the upload is named githubName and is for the release
\* ensureRelease returned; and a mapping whose indexed asset has the size of
\* the local file was skipped without error and without upload.
C15_UploadIffAbsent ==
    \A k \in DOMAIN config :
        Processed(k) =>
            /\ CallsFor("UploadReleaseAsset", k) # {} <=> (HasFile(k) /\ ~Indexed(k))
            /\ UploadsWellFormed(k)
            /\ SkippedWhenSame(k)

\* C15, amended: for each mapping syncAsset has processed, an upload call was
\* made if and only if the source file exists, the index has no asset named
\* githubName, and the file was opened without error; the rest as stated.
C15_UploadIffAbsentAndOpened ==
    \A k \in DOMAIN config :
        Processed(k) =>
            /\ CallsFor("UploadReleaseAsset", k) # {} <=>
                  /\ HasFile(k)
                  /\ ~Indexed(k)
                  /\ \E o \in CallsFor("Open", k) : calls[o].err = ""
            /\ Cardinality(CallsFor("UploadReleaseAsset", k)) <= 1
            /\ UploadsWellFormed(k)
            /\ SkippedWhenSame(k)

\* the first mapping was skipped for an indexed asset of the same size and
\* the second, not indexed, was uploaded
C15_Witness ==
    /\ Len(config) = 2
    /\ Processed(2)
    /\ HasFile(1) /\ Indexed(1)
    /\ CallsFor("UploadReleaseAsset", 1) = {}
    /\ HasFile(2) /\ ~Indexed(2)
    /\ \E u \in CallsFor("UploadReleaseAsset", 2) : calls[u].err = ""

\* C16: the resolver is invoked once at most, and only after a listing that
\* held no release with the tag (found is nil) and with no -target value;
\* with a -target value the resolver is never invoked and that value,
\* unchanged, is the target and the targetCommitish of the release created;
\* and when resolution fails the run ends with the error and made no
\* create, asset listing or upload call.
C16_ResolverOnlyWhenNeeded ==
    /\ Cardinality(CallsOf("findCommitSha")) <= 1
    /\ pc = "findCommitSha" => (found = Nil /\ target = EmptyString)
    /\ \A k \in CallsOf("findCommitSha") :
        /\ Matching(releases) = {}
        /\ \E j \in CallsOf("ListReleases") : j < k /\ calls[j].err = ""
        /\ argv.target = EmptyString
        /\ calls[k].err # "" =>
            /\ pc = "exit"
            /\ exit = FatalExit
            /\ CallsOf("CreateRelease") = {}
            /\ CallsOf("ListReleaseAssets") = {}
            /\ CallsOf("UploadReleaseAsset") = {}
            /\ registry = before
    /\ argv.target # EmptyString =>
        /\ CallsOf("findCommitSha") = {}
        /\ target = argv.target
        /\ \A r \in Created : r.targetCommitish = argv.target

\* a release was created with the -target value as its targetCommitish
C16_Witness ==
    /\ argv.target = ExplicitTarget
    /\ CallsOf("findCommitSha") = {}
    /\ \E r \in Created : r.targetCommitish = ExplicitTarget

\* the run has ended with error e and a non-zero exit code
EndedWith(e) ==
    /\ pc = "exit"
    /\ exit = FatalExit
    /\ err = e

\* C17: a registry call that failed stopped the run before any later
\* mutation.  After a failed release listing: no commit resolution, no
\* create call, no asset listing, no upload.  After a failed create call: no
\* asset listing, no upload.  After a failed asset listing: no mapping
\* processed (no stat, open or upload).  In each case the run has ended with
\* that call's error and the registry is as the process found it.
C17_FailedCallStops ==
    /\ \A a \in CallsOf("ListReleases") :
        calls[a].err # "" =>
            /\ EndedWith(calls[a].err)
            /\ CallsOf("findCommitSha") = {}
            /\ CallsOf("CreateRelease") = {}
            /\ CallsOf("ListReleaseAssets") = {}
            /\ CallsOf("UploadReleaseAsset") = {}
            /\ registry = before
    /\ \A a \in CallsOf("CreateRelease") :
        calls[a].err # "" =>
            /\ EndedWith(calls[a].err)
            /\ CallsOf("ListReleaseAssets") = {}
            /\ CallsOf("UploadReleaseAsset") = {}
            /\ registry = before
    /\ \A a \in CallsOf("ListReleaseAssets") :
        calls[a].err # "" =>
            /\ EndedWith(calls[a].err)
            /\ MappingCalls = {}
            /\ i = 0
            /\ CallsOf("UploadReleaseAsset") = {}
            /\ \A r \in Created : r.assets = <<>>
            /\ \A r \in Range(before) : r \in Range(registry)

\* the release was created and the listing of its assets failed, with
\* mappings configured
C17_Witness ==
    /\ EndedWith("error listing assets")
    /\ Created # {}
    /\ config # <<>>

\* this step submits an upload
UploadSubmitted ==
    /\ pc = "UploadReleaseAsset"
    /\ Len(calls') = Len(calls) + 1
    /\ calls'[Len(calls')].op = "UploadReleaseAsset"

\* every release keeps its assets in this step, and gains them only at the
\* end of its listing
OnlyAdds ==
    \A r \in Range(registry) :
        \E q \in Range(registry') :
            /\ q.id = r.id
            /\ Len(q.assets) >= Len(r.assets)
            /\ SubSeq(q.assets, 1, Len(r.assets)) = r.assets

\* C18: no upload is submitted under a name for which the release has an
\* asset at the moment of the upload, be it one the release had before the
\* run or one uploaded earlier in the run; and no step removes or replaces
\* an asset of a release.
C18_NoUploadOverExisting ==
    [][/\ UploadSubmitted => assetMapping.githubName \notin NamesOf(found)
       /\ OnlyAdds]_vars

\* C19: a file handle is open only between the open and the upload call of
\* a mapping, and it is that mapping's source: at most one handle is open at
\* any time; none is open when a mapping starts or when DoRelease has
\* returned, whether the upload succeeded or failed; and a file is opened
\* only for a mapping that goes on to the upload, the upload being the very
\* next call.
C19_HandleScoped ==
    /\ Cardinality(f) <= 1
    /\ f # {} <=> pc = "UploadReleaseAsset"
    /\ pc = "UploadReleaseAsset" =>
        /\ f = {assetMapping.source}
        /\ calls[Len(calls)].op = "Open"
        /\ calls[Len(calls)].k = i
    /\ \A o \in CallsOf("Open") :
        calls[o].err = "" =>
            \/ o = Len(calls) /\ pc = "UploadReleaseAsset"
            \/ /\ o < Len(calls)
               /\ calls[o + 1].op = "UploadReleaseAsset"
               /\ calls[o + 1].k = calls[o].k

\* the first mapping was uploaded, the upload of the second failed, and
\* DoRelease has returned with no handle open
C19_Witness ==
    /\ EndedWith("error uploading assets")
    /\ \E u \in CallsFor("UploadReleaseAsset", 1) : calls[u].err = ""
    /\ \E o \in CallsFor("Open", 2) : calls[o].err = ""
    /\ f = {}

=============================================================================
